---- MODULE Spec2Model ----
(***************************************************************************)
(* A model of featureranker/utils.py: the column sanitizer, the            *)
(* missing-value reporter, the data preparer (get_data), the two           *)
(* hyperparameter search orchestrators and the elastic-net ranker.         *)
(*                                                                         *)
(* A table (pandas DataFrame) is a record                                  *)
(*   [columns : sequence of column names,                                  *)
(*    index   : sequence of row labels (one per row),                      *)
(*    data    : sequence, one entry per column, of the column's cells,     *)
(*    dtypes  : sequence, one entry per column, of the column's dtype].    *)
(* Row labels are 1..n where pandas' RangeIndex is 0..n-1.                 *)
(* Each operation is one action; every specification below exercises one   *)
(* component and leaves the variables it does not use at Unused.           *)
(***************************************************************************)
EXTENDS Integers, Sequences, FiniteSets, TLC

VARIABLES df, args, pc, ret, err, out, hist

vars == <<df, args, pc, ret, err, out, hist>>

Unused == "-"
None == "None"
NaN == "NaN"

Range(s) == {s[i] : i \in 1..Len(s)}

SeqsUpTo(S, n) == UNION {[1..k -> S] : k \in 0..n}

\* ----------------------------------------------------------------------
\* sanitize_column_names
\* ----------------------------------------------------------------------

\* Total number of characters in the header of a generated table.
MaxChars == 3
\* Number of columns of a generated table (sanitizer).
MaxNameCols == 2
\* How many times the sanitizer is re-applied to its own result.
MaxCalls == 2

\* The characters column names are built from: the six characters the
\* translation table names, the replacement character, and two others.
Alphabet == {"[", "]", "<", ">", "{", "}", "_", "a"}

\* str.maketrans('[]<>{}', '______'): position i of the first string maps
\* to position i of the second.
TransFrom == <<"[", "]", "<", ">", "{", "}">>
TransTo == <<"_", "_", "_", "_", "_", "_">>

MaketransTypo == [c \in Range(SubSeq(TransFrom, 1, 5)) |->
                    TransTo[CHOOSE i \in 1..5 : TransFrom[i] = c]]

maketrans == [c \in Range(TransFrom) |->
                TransTo[CHOOSE i \in 1..Len(TransFrom) : TransFrom[i] = c]]

\* col.translate(table): every character in the table is replaced, every
\* other character is kept.
translate(col) ==
    [i \in 1..Len(col) |->
        IF col[i] \in DOMAIN maketrans THEN maketrans[col[i]] ELSE col[i]]

\* df.columns = [col.translate(...) for col in df.columns]; return df
sanitize_column_names(t) ==
    [t EXCEPT !.columns = [j \in 1..Len(t.columns) |-> translate(t.columns[j])]]

\* The tables the sanitizer is run on: a header of k names cut out of one
\* character string, one row of cells below it.
NameTables ==
    { [columns |-> [j \in 1..k |->
                      SubSeq(s, (IF j = 1 THEN 0 ELSE cut[j-1]) + 1,
                                IF j = k THEN Len(s) ELSE cut[j])],
       index   |-> <<1>>,
       data    |-> [j \in 1..k |-> <<"1">>],
       dtypes  |-> [j \in 1..k |-> "int64"]] :
        <<s, k, cut>> \in
          { x \in UNION { {s} \X {k} \X [1..(k-1) -> 0..Len(s)] :
                              <<s, k>> \in SeqsUpTo(Alphabet, MaxChars) \X (1..MaxNameCols) } :
                \A j \in 1..(x[2]-2) : x[3][j] <= x[3][j+1] } }

InitSanitize ==
    /\ df \in NameTables
    /\ hist = <<df>>
    /\ args = Unused /\ pc = "idle" /\ ret = Unused /\ err = "none" /\ out = <<>>

\* One call sanitize_column_names(df): df is renamed in place and returned.
Sanitize ==
    /\ Len(hist) <= MaxCalls
    /\ df' = sanitize_column_names(df)
    /\ ret' = df'
    /\ hist' = Append(hist, df')
    /\ pc' = "returned"
    /\ UNCHANGED <<args, err, out>>

NextSanitize == Sanitize

SpecSanitize == InitSanitize /\ [][NextSanitize]_vars

Special == {"[", "]", "<", ">", "{", "}"}

\* b is a with every special character of every column name replaced by "_"
\* and everything else as it was.
Renamed(a, b) ==
    /\ Len(b.columns) = Len(a.columns)
    /\ \A j \in 1..Len(a.columns) :
         /\ Len(b.columns[j]) = Len(a.columns[j])
         /\ \A i \in 1..Len(a.columns[j]) :
              b.columns[j][i] = IF a.columns[j][i] \in Special THEN "_"
                                ELSE a.columns[j][i]
    /\ b.data = a.data /\ b.index = a.index /\ b.dtypes = a.dtypes

\* C8: every call of sanitize_column_names replaces each of [ ] < > { } in
\* every column name by _ and leaves the other characters, the number and
\* order of the columns and the cells unchanged; applying it to its own
\* result changes nothing (idempotence).
C8_SanitizeIdempotent ==
    \A k \in 2..Len(hist) :
        /\ Renamed(hist[k-1], hist[k])
        /\ k >= 3 => hist[k] = hist[k-1]

\* A table of two columns, one of whose names held a special character, has
\* been sanitized twice.
C8_Witness ==
    /\ Len(hist) >= 3
    /\ Len(hist[1].columns) = 2
    /\ hist[1] # hist[2]
    /\ \E j \in 1..2 : \E i \in 1..Len(hist[1].columns[j]) :
          hist[1].columns[j][i] = "}"

\* ----------------------------------------------------------------------
\* view_data
\* ----------------------------------------------------------------------

\* Rows and columns of a generated table (reporter).
MaxViewRows == 3
MaxViewCols == 2
\* Rows of the one long table whose single missing cell is below 0.05%.
SparseRows == 2500

ColumnNames == <<"A", "B", "C", "D">>

\* Tables of c columns and r rows whose cells are a value or missing.
ViewTables ==
    { [columns |-> SubSeq(ColumnNames, 1, c),
       index   |-> [i \in 1..r |-> i],
       data    |-> cells,
       dtypes  |-> [j \in 1..c |-> "float64"]] :
        <<c, r, cells>> \in
          UNION { {c} \X {r} \X [1..c -> [1..r -> {NaN, "1"}]] :
                     <<c, r>> \in (0..MaxViewCols) \X (0..MaxViewRows) } }

SparseTable ==
    [columns |-> <<"A">>,
     index   |-> [i \in 1..SparseRows |-> i],
     data    |-> << [i \in 1..SparseRows |-> IF i = 1 THEN NaN ELSE "1"] >>,
     dtypes  |-> <<"float64">>]

\* df[column].isna().sum()
nan_count(t, j) == Cardinality({i \in 1..Len(t.data[j]) : t.data[j][i] = NaN})

\* A quotient is nan, inf, a raised exception, or the exact fraction
\* num / den.
Quotient(kind, n, d) == [kind |-> kind, num |-> n, den |-> d]

\* Python's int / int, which raises on a zero divisor.
py_divide(n, d) ==
    IF d = 0 THEN Quotient("ZeroDivisionError", n, d) ELSE Quotient("finite", n, d)

\* nan_count / len(df): nan_count is a numpy integer (the result of
\* Series.sum()), so this is numpy's true division, which on a zero divisor
\* warns and yields nan (0/0) or inf (n/0) instead of raising.
true_divide(n, d) ==
    IF d = 0 THEN Quotient(IF n = 0 THEN "nan" ELSE "inf", n, d)
    ELSE Quotient("finite", n, d)

\* round(q * 100, 1) of a numpy float, in tenths of a percent: the nearest
\* tenth, a tie going to the even one; nan and inf round to themselves.
round_pct(q) ==
    IF q.kind # "finite" THEN [kind |-> q.kind, tenths |-> 0]
    ELSE LET p == 1000 * q.num
             f == p \div q.den
             r == p % q.den
         IN  [kind |-> "finite",
              tenths |-> IF 2 * r < q.den THEN f
                         ELSE IF 2 * r > q.den THEN f + 1
                         ELSE IF f % 2 = 0 THEN f ELSE f + 1]

\* nan_percentage > 0: false for nan.
positive(p) ==
    IF p.kind = "nan" THEN FALSE ELSE IF p.kind = "inf" THEN TRUE ELSE p.tenths > 0

ColumnLine(column, p) == [kind |-> "column", column |-> column, pct |-> p]
NoNaNLine == [kind |-> "none"]

\* The loop of view_data from column j on, with the counter and the lines
\* printed so far; an exception ends it with the lines printed before it.
RECURSIVE view_loop(_, _, _, _)
view_loop(t, j, count, lines) ==
    IF j > Len(t.columns) THEN [count |-> count, lines |-> lines, err |-> "none"]
    ELSE LET q == true_divide(nan_count(t, j), Len(t.index))
         IN  IF q.kind = "ZeroDivisionError"
             THEN [count |-> count, lines |-> lines, err |-> q.kind]
             ELSE LET p == round_pct(q)
                  IN  IF positive(p)
                      THEN view_loop(t, j + 1, count + 1,
                                     Append(lines, ColumnLine(t.columns[j], p)))
                      ELSE view_loop(t, j + 1, count, lines)

view_data_count_ignored(t) ==
    LET r == view_loop(t, 1, 0, <<>>)
    IN  IF r.err # "none" THEN r
        ELSE [r EXCEPT !.lines = Append(@, NoNaNLine)]

view_data(t) ==
    LET r == view_loop(t, 1, 0, <<>>)
    IN  IF r.err # "none" THEN r
        ELSE IF r.count = 0 THEN [r EXCEPT !.lines = Append(@, NoNaNLine)]
        ELSE r

InitView ==
    /\ df \in ViewTables \cup {SparseTable}
    /\ hist = <<df>>
    /\ args = Unused /\ pc = "idle" /\ ret = Unused /\ err = "none" /\ out = <<>>

\* One call view_data(df): the lines it prints are appended to out.
ViewData ==
    /\ pc = "idle"
    /\ LET r == view_data(df)
       IN  /\ out' = out \o r.lines
           /\ err' = r.err
           /\ pc' = IF r.err = "none" THEN "returned" ELSE "raised"
           /\ ret' = IF r.err = "none" THEN None ELSE Unused
    /\ UNCHANGED <<df, args, hist>>

NextView == ViewData

SpecView == InitView /\ [][NextView]_vars

Rows(t) == Len(t.index)
Cols(t) == Len(t.columns)

\* The columns, in table order, whose share of missing cells rounds to more
\* than 0.0 percent: more than half a tenth of a percent, 2000 * n > rows.
RECURSIVE ReportedFrom(_, _)
ReportedFrom(t, j) ==
    IF j > Cols(t) THEN <<>>
    ELSE (IF 2000 * nan_count(t, j) > Rows(t) THEN <<t.columns[j]>> ELSE <<>>)
         \o ReportedFrom(t, j + 1)

ColumnLinesOf(lines) == SelectSeq(lines, LAMBDA l : l.kind = "column")
NoNaNLinesOf(lines) == SelectSeq(lines, LAMBDA l : l.kind = "none")

\* C9: on a table with at least one row view_data returns after printing one
\* line for each column whose rounded missing percentage is above 0, and the
\* "no NaN values" line exactly when it printed no such line (so exactly that
\* one line when nothing is missing); the table is left as it was.
C9_ViewDataLines ==
    (pc # "idle" /\ Rows(df) >= 1) =>
        /\ pc = "returned"
        /\ LET cl == ColumnLinesOf(out)
           IN  /\ [i \in 1..Len(cl) |-> cl[i].column] = ReportedFrom(df, 1)
               /\ \A i \in 1..Len(cl) : cl[i].pct.kind = "finite" /\ cl[i].pct.tenths > 0
               /\ Len(NoNaNLinesOf(out)) = (IF Len(cl) = 0 THEN 1 ELSE 0)
               /\ Len(out) = Len(cl) + Len(NoNaNLinesOf(out))
        /\ (\A j \in 1..Cols(df) : nan_count(df, j) = 0) => out = <<NoNaNLine>>
        /\ df = hist[1]

\* view_data has reported on a table of two columns, one with a missing cell
\* and one without.
C9_Witness ==
    /\ pc = "returned" /\ Rows(df) >= 2 /\ Cols(df) = 2
    /\ nan_count(df, 1) = 0 /\ nan_count(df, 2) = 1
    /\ Len(out) = 1 /\ out[1].kind = "column" /\ out[1].column = "B"

\* C10 as stated: view_data on a table with no rows and at least one column
\* ends in a division-by-zero failure and prints nothing.
C10_DivisionByZeroRaised ==
    (pc # "idle" /\ Rows(df) = 0 /\ Cols(df) >= 1) =>
        (pc = "raised" /\ err = "ZeroDivisionError" /\ out = <<>>)

\* C10 as amended: view_data on a table with no rows and at least one column
\* returns normally; every percentage is nan, so no per-column line is
\* printed and the single "no NaN values" line is.
C10_EmptyTableReportsNoNaN ==
    (pc # "idle" /\ Rows(df) = 0 /\ Cols(df) >= 1) =>
        (pc = "returned" /\ err = "none" /\ out = <<NoNaNLine>>)

\* view_data has been called on a table with two columns and no rows.
C10_Witness ==
    pc # "idle" /\ Rows(df) = 0 /\ Cols(df) = 2

\* ----------------------------------------------------------------------
\* get_data
\* ----------------------------------------------------------------------

\* Rows of a generated table (data preparer).
MaxDataRows == 2
\* Rows of the worked example: column A 20% missing, column B 90% missing.
ExampleRows == 10

\* A label selector is one column name (str) or a list of names; the extra
\* columns are None or a list of names.
Selector(kind, names) == [kind |-> kind, names |-> names]

\* thresh as the exact fraction num / den.
Fraction(n, d) == [num |-> n, den |-> d]

\* Tables with an object column A, a float column B and a label column L
\* that is a numpy bool column (no missing cell possible), a nullable
\* boolean column or an object column.
DataTables ==
    { [columns |-> <<"A", "B", "L">>,
       index   |-> [i \in 1..r |-> i],
       data    |-> <<a, b, l>>,
       dtypes  |-> <<"object", "float64", ldt>>] :
        <<r, a, b, l, ldt>> \in
          UNION { {r} \X [1..r -> {NaN, "a", "b"}] \X [1..r -> {NaN, "1"}]
                      \X [1..r -> (IF ldt = "bool" THEN {} ELSE {NaN}) \cup {"True", "False"}]
                      \X {ldt} :
                    <<r, ldt>> \in (0..MaxDataRows) \X {"bool", "boolean", "object"} } }

ExampleTable ==
    [columns |-> <<"A", "B", "L">>,
     index   |-> [i \in 1..ExampleRows |-> i],
     data    |-> << [i \in 1..ExampleRows |-> IF 5 * i <= ExampleRows THEN NaN ELSE "1"],
                    [i \in 1..ExampleRows |-> IF 10 * i <= 9 * ExampleRows THEN NaN ELSE "1"],
                    [i \in 1..ExampleRows |-> IF i % 2 = 0 THEN "True" ELSE "False"] >>,
     dtypes  |-> <<"float64", "float64", "bool">>]

HasColumn(t, name) == \E j \in 1..Len(t.columns) : t.columns[j] = name
ColumnIndex(t, name) == CHOOSE j \in 1..Len(t.columns) : t.columns[j] = name

\* The table made of columns js (positions) and rows is (positions) of t.
Take(t, js, is, ndim) ==
    [columns |-> [k \in 1..Len(js) |-> t.columns[js[k]]],
     index   |-> [i \in 1..Len(is) |-> t.index[is[i]]],
     data    |-> [k \in 1..Len(js) |-> [i \in 1..Len(is) |-> t.data[js[k]][is[i]]]],
     dtypes  |-> [k \in 1..Len(js) |-> t.dtypes[js[k]]],
     ndim    |-> ndim]

AllRows(t) == [i \in 1..Len(t.index) |-> i]
AllColumns(t) == [j \in 1..Len(t.columns) |-> j]

\* The positions of the set S, in increasing order.
Positions(S) ==
    [k \in 1..Cardinality(S) |-> CHOOSE x \in S : Cardinality({z \in S : z < x}) = k - 1]

\* df[labels]: a Series for a name, a DataFrame for a list of names; a name
\* that is no column raises KeyError.
getitem(t, labels) ==
    IF \E k \in 1..Len(labels.names) : ~HasColumn(t, labels.names[k])
    THEN [err |-> "KeyError"]
    ELSE [err |-> "none",
          val |-> Take(t, [k \in 1..Len(labels.names) |-> ColumnIndex(t, labels.names[k])],
                       AllRows(t), IF labels.kind = "str" THEN 1 ELSE 2)]

\* columns_to_drop + [labels] if columns_to_drop is not None else labels:
\* with extra columns the selector is appended as ONE element, so a list
\* selector becomes a list nested in the list.
drop_argument(labels, columns_to_drop) ==
    IF columns_to_drop.kind # "None"
    THEN [names |-> columns_to_drop.names \o
                      (IF labels.kind = "str" THEN labels.names ELSE <<>>),
          nested |-> labels.kind # "str"]
    ELSE [names |-> labels.names, nested |-> FALSE]

\* df.drop(columns=...): a nested list is no column label and a name that
\* is no column is not found; both raise inside the table library.
drop(t, arg) ==
    IF arg.nested THEN [err |-> "TypeError"]
    ELSE IF \E k \in 1..Len(arg.names) : ~HasColumn(t, arg.names[k])
    THEN [err |-> "KeyError"]
    ELSE [err |-> "none",
          val |-> Take(t, Positions({j \in 1..Len(t.columns) :
                                       t.columns[j] \notin Range(arg.names)}),
                       AllRows(t), 2)]

notna_count(t, j) == Cardinality({i \in 1..Len(t.index) : t.data[j][i] # NaN})

keeps_column_strict(count, thresh, rows) ==
    count * thresh.den > thresh.num * rows

\* threshold = thresh * len(df_clean); dropna(axis=1, thresh=threshold)
\* keeps a column when its non-missing count >= threshold.
keeps_column(count, thresh, rows) ==
    count * thresh.den >= thresh.num * rows

dropna_columns(t, thresh) ==
    Take(t, Positions({j \in 1..Len(t.columns) :
                         keeps_column(notna_count(t, j), thresh, Len(t.index))}),
         AllRows(t), 2)

\* pd.concat([a, b], axis=1): both carry the index of df.
concat(a, b) ==
    [columns |-> a.columns \o b.columns,
     index   |-> a.index,
     data    |-> a.data \o b.data,
     dtypes  |-> a.dtypes \o b.dtypes,
     ndim    |-> 2]

\* combined.dropna(): the rows without a missing cell.
dropna_rows(t) ==
    Take(t, AllColumns(t),
         Positions({i \in 1..Len(t.index) :
                      \A j \in 1..Len(t.columns) : t.data[j][i] # NaN}),
         2)

y_not_reselected(combined_clean, y, labels) == [err |-> "none", val |-> y]

\* y = combined_clean[labels]
reselect_y(combined_clean, y, labels) == getitem(combined_clean, labels)

\* The order LabelEncoder sorts the classes in.
ClassOrder == <<"False", "True", "a", "b">>
IntStr == <<"0", "1", "2", "3", "4", "5">>

\* LabelEncoder().fit_transform(values): each value becomes the position
\* (from 0) of the value among the sorted distinct values present.
fit_transform(values) ==
    [i \in 1..Len(values) |->
        IntStr[1 + Cardinality({k \in 1..Len(ClassOrder) :
                    /\ ClassOrder[k] \in Range(values)
                    /\ k < (CHOOSE m \in 1..Len(ClassOrder) : ClassOrder[m] = values[i])})]]

\* The loop over select_dtypes(include=['object', 'string', 'bool']).
encode(t) ==
    [t EXCEPT
       !.data = [j \in 1..Len(t.columns) |->
                   IF t.dtypes[j] \in {"object", "string", "bool"}
                   THEN fit_transform(t.data[j]) ELSE t.data[j]],
       !.dtypes = [j \in 1..Len(t.columns) |->
                   IF t.dtypes[j] \in {"object", "string", "bool"}
                   THEN "int64" ELSE t.dtypes[j]]]

\* y.astype(int)
astype_int(v) == IF v = "True" THEN "1" ELSE IF v = "False" THEN "0" ELSE v

is_boolean_dtype_any(dtype) == dtype \in {"bool", "boolean"}

\* y.dtype == 'boolean': true of pandas' nullable BooleanDtype, whose name
\* is 'boolean'; numpy's bool dtype is named 'bool' and does not compare
\* equal to the string 'boolean'.
dtype_is_boolean(dtype) == dtype = "boolean"

\* if y.dtype == 'boolean': y = y.astype(int).  A DataFrame (list selector)
\* has no attribute dtype.
coerce_y(y) ==
    IF y.ndim # 1 THEN [err |-> "AttributeError"]
    ELSE IF dtype_is_boolean(y.dtypes[1])
    THEN [err |-> "none",
          val |-> [y EXCEPT !.data = <<[i \in 1..Len(y.index) |-> astype_int(y.data[1][i])]>>,
                            !.dtypes = <<"int64">>]]
    ELSE [err |-> "none", val |-> y]

Raise(e) == [err |-> e, X |-> Unused, y |-> Unused]

get_data(t, labels, thresh, columns_to_drop) ==
    LET y0 == getitem(t, labels)
    IN  IF y0.err # "none" THEN Raise(y0.err) ELSE
    LET d == drop(t, drop_argument(labels, columns_to_drop))
    IN  IF d.err # "none" THEN Raise(d.err) ELSE
    LET df_clean == dropna_columns(d.val, thresh)
        combined_clean == dropna_rows(concat(df_clean, y0.val))
        X0 == getitem(combined_clean, Selector("list", df_clean.columns))
        y1 == reselect_y(combined_clean, y0.val, labels)
    IN  IF X0.err # "none" THEN Raise(X0.err) ELSE
        IF y1.err # "none" THEN Raise(y1.err) ELSE
    LET X == encode(X0.val)
        y2 == coerce_y(y1.val)
    IN  IF y2.err # "none" THEN Raise(y2.err)
        ELSE [err |-> "none", X |-> X, y |-> y2.val]

LabelSelectors ==
    {Selector("str", <<"L">>), Selector("list", <<"L">>), Selector("list", <<"L", "B">>)}
ExtraColumns == {Selector("None", <<>>), Selector("list", <<"B">>)}
\* 0.8 is the default of thresh.
Thresholds == {Fraction(4, 5), Fraction(1, 2)}

InitGetData ==
    /\ df \in DataTables \cup {ExampleTable}
    /\ hist = <<df>>
    /\ args = Unused /\ pc = "idle" /\ ret = Unused /\ err = "none" /\ out = <<>>

\* One call get_data(df, labels, thresh, columns_to_drop).
GetData ==
    /\ pc = "idle"
    /\ \E labels \in LabelSelectors, thresh \in Thresholds, extra \in ExtraColumns :
         LET r == get_data(df, labels, thresh, extra)
         IN  /\ args' = [labels |-> labels, thresh |-> thresh, columns_to_drop |-> extra]
             /\ err' = r.err
             /\ pc' = IF r.err = "none" THEN "returned" ELSE "raised"
             /\ ret' = [X |-> r.X, y |-> r.y]
    /\ UNCHANGED <<df, out, hist>>

NextGetData == GetData

SpecGetData == InitGetData /\ [][NextGetData]_vars

Cell(t, name, label) ==
    t.data[ColumnIndex(t, name)][CHOOSE i \in 1..Len(t.index) : t.index[i] = label]

\* C1: when get_data returns, X and y have the same number of rows, row i
\* of X and row i of y carry the same row label of the input table, in
\* increasing order, and their cells are that input row's cells (a feature
\* cell as it was or, in an encoded column, a code that is equal exactly
\* for equal input cells; a label cell as it was or cast to 0/1).
C1_RowsAligned ==
    pc = "returned" =>
        LET X == ret.X
            y == ret.y
        IN  /\ Len(X.index) = Len(y.index)
            /\ \A j \in 1..Len(X.columns) : Len(X.data[j]) = Len(X.index)
            /\ \A k \in 1..Len(y.columns) : Len(y.data[k]) = Len(y.index)
            /\ \A i \in 1..Len(X.index) :
                 /\ X.index[i] = y.index[i]
                 /\ X.index[i] \in Range(df.index)
                 /\ i > 1 => X.index[i-1] < X.index[i]
                 /\ \A k \in 1..Len(y.columns) :
                      y.data[k][i] \in {Cell(df, y.columns[k], y.index[i]),
                                        astype_int(Cell(df, y.columns[k], y.index[i]))}
                 /\ \A j \in 1..Len(X.columns) :
                      IF df.dtypes[ColumnIndex(df, X.columns[j])] = "float64"
                      THEN X.data[j][i] = Cell(df, X.columns[j], X.index[i])
                      ELSE \A i2 \in 1..Len(X.index) :
                             (X.data[j][i] = X.data[j][i2]) <=>
                             (Cell(df, X.columns[j], X.index[i]) =
                              Cell(df, X.columns[j], X.index[i2]))

\* get_data has returned some but not all rows of the example table, the
\* first row of the table not among them.
C1_Witness ==
    /\ pc = "returned"
    /\ df = ExampleTable
    /\ Len(ret.X.index) >= 2 /\ Len(ret.X.index) < Len(df.index)
    /\ ret.X.index = ret.y.index
    /\ ret.X.index[1] > 1

IsFeature(j) ==
    df.columns[j] \notin Range(args.labels.names) \cup Range(args.columns_to_drop.names)

IsKeptFeature(j) ==
    /\ IsFeature(j)
    /\ notna_count(df, j) * args.thresh.den >= args.thresh.num * Len(df.index)

\* C2: when get_data returns, the columns of X are the feature columns
\* whose non-missing count over all input rows is at least thresh * rows,
\* the rows are the input rows with no missing cell in a surviving feature
\* column or a label column (whatever a dropped column holds there), and X
\* holds no missing cell.
C2_ColumnsThenRows ==
    pc = "returned" =>
        LET X == ret.X
            keptcols == Positions({j \in 1..Len(df.columns) : IsKeptFeature(j)})
            keptrows == Positions({i \in 1..Len(df.index) :
                          \A j \in 1..Len(df.columns) :
                             (IsKeptFeature(j) \/ df.columns[j] \in Range(args.labels.names))
                                => df.data[j][i] # NaN})
        IN  /\ X.columns = [k \in 1..Len(keptcols) |-> df.columns[keptcols[k]]]
            /\ X.index = [i \in 1..Len(keptrows) |-> df.index[keptrows[i]]]
            /\ \A j \in 1..Len(X.columns) : \A i \in 1..Len(X.index) : X.data[j][i] # NaN

\* The worked example: thresh 0.8, A 20% missing is kept, B 90% missing is
\* dropped, the rows with A missing are dropped and a row with B missing is
\* kept.
C2_Witness ==
    /\ pc = "returned"
    /\ df = ExampleTable
    /\ args.thresh = Fraction(4, 5) /\ args.columns_to_drop.kind = "None"
    /\ ret.X.columns = <<"A">>
    /\ Len(ret.X.index) < Len(df.index)
    /\ \E i \in 1..Len(ret.X.index) : Cell(df, "B", ret.X.index[i]) = NaN

\* C3 as stated: a single label column of boolean values (at least one),
\* none missing, whatever its boolean dtype, comes back integer-typed with
\* True as 1 and False as 0.
C3_BooleanLabelCoerced ==
    (/\ pc # "idle"
     /\ Len(df.index) >= 1
     /\ args.labels = Selector("str", <<"L">>)
     /\ is_boolean_dtype_any(df.dtypes[ColumnIndex(df, "L")])
     /\ \A i \in 1..Len(df.index) : Cell(df, "L", df.index[i]) \in {"True", "False"})
    => /\ pc = "returned"
       /\ ret.y.dtypes = <<"int64">>
       /\ \A i \in 1..Len(ret.y.index) :
            ret.y.data[1][i] = IF Cell(df, "L", ret.y.index[i]) = "True" THEN "1" ELSE "0"

\* C4 as stated: for a selector of one name or of several names, all
\* present in a table with at least one row, with or without extra columns,
\* get_data returns X without the label and extra columns and y with
\* exactly the label columns.
C4_LabelsAndExtrasExcluded ==
    (pc # "idle" /\ Len(df.index) >= 1) =>
        /\ pc = "returned"
        /\ Range(ret.X.columns) \cap
             (Range(args.labels.names) \cup Range(args.columns_to_drop.names)) = {}
        /\ ret.y.columns = args.labels.names

\* ----------------------------------------------------------------------
\* regression_hyper_param_search, classification_hyper_param_search
\* ----------------------------------------------------------------------

\* Largest num_runs tried, largest cross-validation score, and how many
\* times the same call is repeated.
MaxRuns == 2
MaxScore == 1
MaxSearchCalls == 2

\* random_state=42 of both RandomizedSearchCV calls.
RandomState == 42

Scores == 0..MaxScore

\* An estimator template as the registry constructs it: its class and the
\* random_state it was given (none of the four is given one).
Estimator(class) == [class |-> class, random_state |-> None]

Entry(class, grid) == [model |-> Estimator(class), params |-> grid]

\* The built-in registry.
model_params ==
    [classification |->
        [XGBoost |-> Entry("XGBClassifier", "xgb_grid"),
         RandomForest |-> Entry("RandomForestClassifier", "rf_grid")],
     regression |->
        [XGBoost |-> Entry("XGBRegressor", "xgb_grid"),
         RandomForest |-> Entry("RandomForestRegressor", "rf_grid")]]

\* Registries a caller may pass as model_params: the built-in one, one with
\* a single family, one with a family of the caller's, one with no family.
Registries ==
    { model_params,
      [classification |-> [XGBoost |-> Entry("XGBClassifier", "xgb_grid")],
       regression |-> [XGBoost |-> Entry("XGBRegressor", "xgb_grid")]],
      [classification |-> [RandomForest |-> Entry("RandomForestClassifier", "rf_grid"),
                           SVM |-> Entry("SVC", "svm_grid")],
       regression |-> [RandomForest |-> Entry("RandomForestRegressor", "rf_grid"),
                       SVM |-> Entry("SVR", "svm_grid")]],
      [classification |-> <<>>, regression |-> <<>>] }

ModelNames == {"XGBoost", "RandomForest", "SVM"}

lookup_or_first(mapping, key) ==
    IF key \in DOMAIN mapping THEN [err |-> "none", val |-> mapping[key]]
    ELSE [err |-> "none", val |-> Entry("XGBRegressor", "xgb_grid")]

\* mapping[key]: KeyError when the key is absent.
lookup(mapping, key) ==
    IF key \in DOMAIN mapping THEN [err |-> "none", val |-> mapping[key]]
    ELSE [err |-> "KeyError", val |-> Entry("-", "-")]

\* Whether fitting the estimator twice on the same data gives the same
\* model: the XGBoost estimators fall back to a fixed seed when
\* random_state is None, the random forests (and any estimator given no
\* seed) draw from the process-wide generator.
fit_is_repeatable(estimator) ==
    \/ estimator.class \in {"XGBClassifier", "XGBRegressor", "SVC", "SVR"}
    \/ estimator.random_state # None

\* The i-th configuration RandomizedSearchCV samples from a grid under a
\* seed: a function of grid, seed and i alone.
Candidate(grid, seed, i) == [grid |-> grid, seed |-> seed, draw |-> i]
NoResult == Candidate("-", 0, 0)

\* clf.fit(X, y); clf.best_params_: the first sampled configuration with
\* the highest cross-validation score.
best_params(grid, n_iter, seed, cv_scores) ==
    Candidate(grid, seed,
              CHOOSE i \in 1..n_iter :
                 /\ \A k \in 1..n_iter : cv_scores[k] <= cv_scores[i]
                 /\ \A k \in 1..(i-1) : cv_scores[k] < cv_scores[i])

Event(name, save) == [name |-> name, save |-> save]

Outcome(e, events, result) == [err |-> e, events |-> events, ret |-> result]

\* cv_scores: the scores this call's fits produce; landscape: the scores of
\* the sampled configurations on (X, y) when fitting is repeatable.
regression_hyper_param_search(model_name, num_runs, registry, save, predict, landscape, cv_scores) ==
    LET ev0 == <<Event("make_scorer", FALSE)>>
        task == lookup(registry, "regression")
        mp == IF task.err = "none" THEN lookup(task.val, model_name) ELSE task
    IN  IF mp.err # "none" THEN Outcome(mp.err, ev0, NoResult)
        ELSE
        LET sc == IF fit_is_repeatable(mp.val.model) THEN landscape ELSE cv_scores
            best == best_params(mp.val.params, num_runs, RandomState, sc)
            ev1 == ev0 \o <<Event("RandomizedSearchCV", FALSE), Event("fit", FALSE)>>
            ev2 == IF predict
                   THEN ev1 \o <<Event("cross_val_predict", FALSE),
                                 Event("plot_correlations", save)>>
                   ELSE ev1
        IN  Outcome("none", ev2, best)

classification_hyper_param_search(model_name, num_runs, registry, save, predict, landscape, cv_scores) ==
    LET task == lookup(registry, "classification")
        mp == IF task.err = "none" THEN lookup(task.val, model_name) ELSE task
    IN  IF mp.err # "none" THEN Outcome(mp.err, <<>>, NoResult)
        ELSE
        LET sc == IF fit_is_repeatable(mp.val.model) THEN landscape ELSE cv_scores
            best == best_params(mp.val.params, num_runs, RandomState, sc)
            ev1 == <<Event("RandomizedSearchCV", FALSE), Event("fit", FALSE)>>
            ev2 == IF predict
                   THEN ev1 \o <<Event("cross_val_predict", FALSE),
                                 Event("accuracy_score", FALSE),
                                 Event("confusion_matrix", FALSE),
                                 Event("plot_confusion_matrix", save)>>
                   ELSE ev1
        IN  Outcome("none", ev2, best)

\* The inputs of the calls of one behaviour: the same for every call.
InitSearch ==
    /\ \E task \in {"regression", "classification"}, name \in ModelNames,
          registry \in Registries, n \in 1..MaxRuns, save \in BOOLEAN, predict \in BOOLEAN :
          \E landscape \in [1..n -> Scores] :
             args = [task |-> task, model_name |-> name, registry |-> registry,
                     num_runs |-> n, save |-> save, predict |-> predict,
                     landscape |-> landscape]
    /\ df = Unused /\ hist = <<>>
    /\ pc = "idle" /\ ret = NoResult /\ err = "none" /\ out = <<>>

Finish(r) ==
    /\ err' = r.err
    /\ out' = r.events
    /\ ret' = r.ret
    /\ pc' = IF r.err = "none" THEN "returned" ELSE "raised"
    /\ hist' = Append(hist, r)
    /\ UNCHANGED <<df, args>>

\* One call of regression_hyper_param_search with the behaviour's inputs.
RegressionSearch ==
    /\ args.task = "regression"
    /\ Len(hist) < MaxSearchCalls
    /\ \E cv_scores \in [1..args.num_runs -> Scores] :
         Finish(regression_hyper_param_search(
                  args.model_name, args.num_runs, args.registry, args.save,
                  args.predict, args.landscape, cv_scores))

\* One call of classification_hyper_param_search with the behaviour's inputs.
ClassificationSearch ==
    /\ args.task = "classification"
    /\ Len(hist) < MaxSearchCalls
    /\ \E cv_scores \in [1..args.num_runs -> Scores] :
         Finish(classification_hyper_param_search(
                  args.model_name, args.num_runs, args.registry, args.save,
                  args.predict, args.landscape, cv_scores))

NextSearch == RegressionSearch \/ ClassificationSearch

SpecSearch == InitSearch /\ [][NextSearch]_vars

EventNames(events) == {events[i].name : i \in 1..Len(events)}

SearchWork ==
    {"RandomizedSearchCV", "fit", "cross_val_predict", "accuracy_score",
     "confusion_matrix", "plot_correlations", "plot_confusion_matrix"}

\* C5: in every call of either orchestrator whose model_name is not in the
\* registry's entry for the task, the call ends with KeyError, having fitted
\* no search, computed no cross-validated prediction and requested no plot,
\* and returns no best-parameter mapping.
C5_UnknownModelKeyError ==
    \A k \in 1..Len(hist) :
        args.model_name \notin DOMAIN args.registry[args.task] =>
            /\ hist[k].err = "KeyError"
            /\ EventNames(hist[k].events) \cap SearchWork = {}
            /\ hist[k].ret = NoResult
            /\ k = Len(hist) => (pc = "raised" /\ err = "KeyError" /\ ret = NoResult)

\* A regression call with predict set has been made for a name the built-in
\* registry does not hold.
C5_Witness ==
    /\ Len(hist) >= 1
    /\ args.registry = model_params /\ args.model_name = "SVM"
    /\ args.task = "regression" /\ args.predict
    /\ pc = "raised"

\* C6 as stated: two calls of the same orchestrator with the same inputs and
\* the built-in registry return the same best-parameter mapping, for
\* XGBoost and for RandomForest.
C6_SameInputsSameBestParams ==
    (/\ Len(hist) >= 2
     /\ args.registry = model_params
     /\ args.model_name \in {"XGBoost", "RandomForest"})
    => (hist[1].err = "none" /\ hist[2].err = "none" /\ hist[1].ret = hist[2].ret)

\* ----------------------------------------------------------------------
\* elastic_net_regression_ranking
\* ----------------------------------------------------------------------

\* Number of feature columns of X, and the largest magnitude of a fitted
\* coefficient (integers stand for the real coefficients).
MaxFeatures == 3
MaxCoef == 2

\* StandardScaler and ElasticNetCV are imported nowhere in utils.py: they
\* are bound only if the star import of featureranker.plots binds them.
StarNames == {"StandardScaler", "ElasticNetCV"}

\* np.abs
abs(x) == IF x < 0 THEN -x ELSE x

Row(label, feature, score) == [label |-> label, Feature |-> feature, ENet_Score |-> score]

\* pd.DataFrame({'Feature': columns, 'ENet_Score': coefs}): row i, labelled
\* i - 1, pairs column i with coefficient i.
ranking_frame(columns, coefs) ==
    [i \in 1..Len(columns) |-> Row(i - 1, columns[i], coefs[i])]

\* The rows at the positions S in ascending order of score.
sort_values_ascending(rows, S) ==
    { [k \in 1..Cardinality(S) |->
          rows[CHOOSE i \in S :
                 Cardinality({m \in S : \/ rows[m].ENet_Score < rows[i].ENet_Score
                                        \/ /\ rows[m].ENet_Score = rows[i].ENet_Score
                                           /\ m < i}) = k - 1]] }

\* ranking.sort_values(by='ENet_Score', ascending=False) of the rows at the
\* positions S: the orders it can produce.  Each step takes a row of the
\* highest score left; the default sort is not stable, so among rows of
\* equal score any may come first.
RECURSIVE sort_values_descending(_, _)
sort_values_descending(rows, S) ==
    IF S = {} THEN {<<>>}
    ELSE UNION { { <<rows[i]>> \o rest : rest \in sort_values_descending(rows, S \ {i}) } :
                   i \in {i \in S : \A k \in S : rows[k].ENet_Score <= rows[i].ENet_Score} }

\* reset_index(drop=True): the rows are labelled 0..n-1 in their order.
reset_index(rows) ==
    [i \in 1..Len(rows) |-> [rows[i] EXCEPT !.label = i - 1]]

\* The outcomes of one call, for the coefficients coef_ the fit produces.
elastic_net_regression_ranking(columns, norm, bound, coef_) ==
    IF norm /\ "StandardScaler" \notin bound THEN {[err |-> "NameError", ranking |-> <<>>]}
    ELSE IF "ElasticNetCV" \notin bound THEN {[err |-> "NameError", ranking |-> <<>>]}
    ELSE LET coefs == [i \in 1..Len(coef_) |-> abs(coef_[i])]
             ranking == ranking_frame(columns, coefs)
         IN  { [err |-> "none", ranking |-> reset_index(sorted)] :
                 sorted \in sort_values_descending(ranking, 1..Len(ranking)) }

InitENet ==
    /\ \E n \in 1..MaxFeatures, norm \in BOOLEAN, bound \in SUBSET StarNames :
          args = [columns |-> SubSeq(ColumnNames, 1, n), norm |-> norm, bound |-> bound]
    /\ df = Unused /\ hist = <<>>
    /\ pc = "idle" /\ ret = <<>> /\ err = "none" /\ out = <<>>

\* One call elastic_net_regression_ranking(X, y, norm=norm); hist records
\* the coefficients the fit produced.
ENetRanking ==
    /\ pc = "idle"
    /\ \E coef_ \in [1..Len(args.columns) -> (-MaxCoef)..MaxCoef] :
         \E r \in elastic_net_regression_ranking(args.columns, args.norm, args.bound, coef_) :
            /\ err' = r.err
            /\ ret' = r.ranking
            /\ pc' = IF r.err = "none" THEN "returned" ELSE "raised"
            /\ hist' = IF r.err = "none" THEN <<coef_>> ELSE <<>>
    /\ UNCHANGED <<df, args, out>>

NextENet == ENetRanking

SpecENet == InitENet /\ [][NextENet]_vars

\* C7: when elastic_net_regression_ranking returns, the table has one row
\* per feature column of X, each row holds a feature's name with the
\* absolute value of that feature's own coefficient (so no score is
\* negative), adjacent rows are in descending order of score, and the rows
\* are labelled 0..n-1.
C7_RankingSortedDescending ==
    pc = "returned" =>
        LET n == Len(args.columns)
            coef_ == hist[1]
        IN  /\ Len(ret) = n
            /\ \A j \in 1..n :
                 Cardinality({i \in 1..n : ret[i].Feature = args.columns[j]}) = 1
            /\ \A i \in 1..n :
                 /\ ret[i].label = i - 1
                 /\ ret[i].ENet_Score >= 0
                 /\ \A j \in 1..n :
                      ret[i].Feature = args.columns[j] =>
                          ret[i].ENet_Score = (IF coef_[j] < 0 THEN -coef_[j] ELSE coef_[j])
            /\ \A i \in 1..(n - 1) : ret[i].ENet_Score >= ret[i+1].ENet_Score

\* A ranking of three features has been returned in which a feature with a
\* negative coefficient comes first and the input order was not kept.
C7_Witness ==
    /\ pc = "returned"
    /\ Len(ret) = 3
    /\ ret[1].Feature = "C" /\ hist[1][3] < 0
    /\ ret[1].ENet_Score > ret[2].ENet_Score
    /\ ret[2].ENet_Score > ret[3].ENet_Score

====
